---- MODULE Spec2Model ----
(***************************************************************************)
(* Model of the Broken Links Cleaner plugin (src/main.ts, lines 1-565).    *)
(*                                                                         *)
(* Strings are sequences of one-character strings.  Two glyphs stand for   *)
(* longer runs of text that the code never looks into: ".md" is the file   *)
(* extension and "w" is a run of ordinary word characters (no bracket, no  *)
(* bar, no whitespace, no dash, no hash).                                  *)
(***************************************************************************)
EXTENDS Integers, Sequences, FiniteSets, TLC

(***************************************************************************)
(* Characters and elementary string functions                              *)
(***************************************************************************)
LB == "["
RB == "]"
BAR == "|"
SP == " "
NL == "\n"
DASH == "-"
HASH == "#"
MD == ".md"

\* JavaScript's \s class, restricted to the whitespace the model writes.
Whitespace == {SP, NL}

Min(S) == CHOOSE x \in S : \A y \in S : x <= y

\* Smallest index j >= i with s[j] \in C, or Len(s) + 1 when there is none.
IndexFrom(s, i, C) ==
  LET hits == {j \in i..Len(s) : s[j] \in C}
  IN IF hits = {} THEN Len(s) + 1 ELSE Min(hits)

\* s[a..b], the empty string when a > b.
Slice(s, a, b) == IF a > b THEN <<>> ELSE SubSeq(s, a, b)

RECURSIVE Flatten(_)
Flatten(ss) == IF ss = <<>> THEN <<>> ELSE Head(ss) \o Flatten(Tail(ss))

\* `[[${x}]]`
Bracketed(x) == <<LB, LB>> \o x \o <<RB, RB>>

\* String.prototype.trim
RECURSIVE TrimLeft(_)
TrimLeft(s) ==
  IF s # <<>> /\ Head(s) \in Whitespace THEN TrimLeft(Tail(s)) ELSE s

RECURSIVE TrimRight(_)
TrimRight(s) ==
  IF s # <<>> /\ s[Len(s)] \in Whitespace
  THEN TrimRight(SubSeq(s, 1, Len(s) - 1)) ELSE s

Trim(s) == TrimRight(TrimLeft(s))

\* String.prototype.split(sep) for a one-character separator.
RECURSIVE Split(_, _)
Split(s, sep) ==
  LET j == IndexFrom(s, 1, {sep})
  IN IF j > Len(s) THEN <<s>>
     ELSE <<Slice(s, 1, j - 1)>> \o Split(Slice(s, j + 1, Len(s)), sep)

(***************************************************************************)
(* The regular expressions of the plugin, each as "the match that starts   *)
(* at index i", 0 for no match.  Every class in them is a negated          *)
(* character class closed by a literal, so the match at i is unique.       *)
(***************************************************************************)

\* /\[\[([^\]]+)\]\]/ at i: the index of the last character of the match.
PlainMatchEnd(s, i) ==
  IF i + 1 <= Len(s) /\ s[i] = LB /\ s[i + 1] = LB
  THEN LET k == IndexFrom(s, i + 2, {RB})
       IN IF k > i + 2 /\ k + 1 <= Len(s) /\ s[k + 1] = RB THEN k + 1 ELSE 0
  ELSE 0

\* /\[\[([^\]|]+)\|([^\]]+)\]\]/ at i: [bar, end], end = 0 for no match.
AliasMatch(s, i) ==
  IF i + 1 <= Len(s) /\ s[i] = LB /\ s[i + 1] = LB
  THEN LET j == IndexFrom(s, i + 2, {RB, BAR})
       IN IF j > i + 2 /\ j <= Len(s) /\ s[j] = BAR
          THEN LET k == IndexFrom(s, j + 1, {RB})
               IN IF k > j + 1 /\ k + 1 <= Len(s) /\ s[k + 1] = RB
                  THEN [bar |-> j, end |-> k + 1]
                  ELSE [bar |-> 0, end |-> 0]
          ELSE [bar |-> 0, end |-> 0]
  ELSE [bar |-> 0, end |-> 0]

(***************************************************************************)
(* cleanBrokenWikilinks                                                    *)
(***************************************************************************)

\* The callback of the first replace: [[link|display]].
AliasReplacement(s, i, m, brokenLinks, deleteText) ==
  LET link == Slice(s, i + 2, m.bar - 1)
      display == Slice(s, m.bar + 1, m.end - 2)
  IN IF Bracketed(link) \in brokenLinks
     THEN (IF deleteText THEN <<>> ELSE display)
     ELSE Slice(s, i, m.end)

\* text.replace(/\[\[([^\]|]+)\|([^\]]+)\]\]/g, ...) from index i on.  A match
\* starts with a bracket, so the scan goes from one opening bracket to the next.
RECURSIVE ReplaceAlias(_, _, _, _)
ReplaceAlias(s, i, brokenLinks, deleteText) ==
  LET j == IndexFrom(s, i, {LB})
  IN IF j > Len(s) THEN Slice(s, i, Len(s))
     ELSE LET m == AliasMatch(s, j)
          IN IF m.end = 0
             THEN Slice(s, i, j) \o ReplaceAlias(s, j + 1, brokenLinks, deleteText)
             ELSE Slice(s, i, j - 1)
                  \o AliasReplacement(s, j, m, brokenLinks, deleteText)
                  \o ReplaceAlias(s, m.end + 1, brokenLinks, deleteText)

\* The callback of the second replace: [[link]].
PlainReplacement(s, i, e, brokenLinks, deleteText) ==
  LET match == Slice(s, i, e)
      linkText == Slice(s, i + 2, e - 2)
  IN IF match \in brokenLinks
     THEN (IF deleteText THEN <<>> ELSE linkText)
     ELSE match

\* text.replace(/\[\[([^\]]+)\]\]/g, ...) from index i on.
RECURSIVE ReplacePlain(_, _, _, _)
ReplacePlain(s, i, brokenLinks, deleteText) ==
  LET j == IndexFrom(s, i, {LB})
  IN IF j > Len(s) THEN Slice(s, i, Len(s))
     ELSE LET e == PlainMatchEnd(s, j)
          IN IF e = 0
             THEN Slice(s, i, j) \o ReplacePlain(s, j + 1, brokenLinks, deleteText)
             ELSE Slice(s, i, j - 1)
                  \o PlainReplacement(s, j, e, brokenLinks, deleteText)
                  \o ReplacePlain(s, e + 1, brokenLinks, deleteText)

cleanBrokenWikilinks(text, brokenLinks, deleteText) ==
  ReplacePlain(ReplaceAlias(text, 1, brokenLinks, deleteText), 1,
               brokenLinks, deleteText)

(***************************************************************************)
(* Link occurrences: content.match(/\[\[([^\]]+)\]\]/g)                    *)
(***************************************************************************)

\* The matches of the global regex from index i on, as [from, to] spans.
RECURSIVE MatchSpans(_, _)
MatchSpans(s, i) ==
  LET j == IndexFrom(s, i, {LB})
  IN IF j > Len(s) THEN <<>>
     ELSE LET e == PlainMatchEnd(s, j)
          IN IF e = 0 THEN MatchSpans(s, j + 1)
             ELSE <<[from |-> j, to |-> e]>> \o MatchSpans(s, e + 1)

\* link.slice(2, -2).split('|')[0]
LinkTarget(link) == Split(Slice(link, 3, Len(link) - 2), BAR)[1]

(***************************************************************************)
(* loadBrokenLinks: the line parser (lines 108-135)                        *)
(***************************************************************************)

\* The index after the leading /^[\s-]*/ of a line.
ListStart(line) ==
  LET rest == {j \in 1..Len(line) : line[j] \notin Whitespace \cup {DASH}}
  IN IF rest = {} THEN Len(line) + 1 ELSE Min(rest)

\* listRegex /^[\s-]*(\[\[[^\]]+\]\])/: group 1, or <<>> for no match.
ListMatch(line) ==
  LET p == ListStart(line)
      e == PlainMatchEnd(line, p)
  IN IF e = 0 THEN <<>> ELSE Slice(line, p, e)

\* /\s+/ from index i: the index after the run, 0 when the run is empty.
SkipSpaces(line, i) ==
  LET rest == {j \in i..Len(line) : line[j] \notin Whitespace}
      stop == IF rest = {} THEN Len(line) + 1 ELSE Min(rest)
  IN IF stop > i THEN stop ELSE 0

\* reportFormatRegex /^[\s-]*(\[\[[^\]]+\]\])\s+in\s+\[\[/: group 1, or <<>>.
ReportMatch(line) ==
  LET p == ListStart(line)
      e == PlainMatchEnd(line, p)
      a == IF e = 0 THEN 0 ELSE SkipSpaces(line, e + 1)
      b == IF a # 0 /\ a + 1 <= Len(line) /\ line[a] = "i" /\ line[a + 1] = "n"
           THEN SkipSpaces(line, a + 2) ELSE 0
  IN IF b # 0 /\ b + 1 <= Len(line) /\ line[b] = LB /\ line[b + 1] = LB
     THEN Slice(line, p, e) ELSE <<>>

\* line.trim().startsWith('#') || line.trim().length === 0
SkippedLine(line) ==
  LET t == Trim(line) IN t = <<>> \/ Head(t) = HASH

\* A loader that takes every bracketed expression of a line, not the first.
LineKeysEveryLink(line) ==
  IF SkippedLine(line) \/ ListMatch(line) = <<>> THEN {}
  ELSE LET spans == MatchSpans(line, 1)
       IN {Slice(line, spans[n].from, spans[n].to) : n \in 1..Len(spans)}

\* The keys one line adds to brokenLinksSet (the body of the for loop).
LineKeys(line) ==
  IF SkippedLine(line) THEN {}
  ELSE IF ReportMatch(line) # <<>> THEN {ReportMatch(line)}
  ELSE IF ListMatch(line) # <<>> THEN {ListMatch(line)}
  ELSE {}

\* The set loadBrokenLinks returns for a registry document with this content.
ParseBrokenLinks(content) ==
  LET lines == Split(content, NL)
  IN UNION {LineKeys(lines[n]) : n \in 1..Len(lines)}

(***************************************************************************)
(* The scanner's report (lines 330-340)                                    *)
(***************************************************************************)
Digit == <<"0", "1", "2", "3", "4", "5", "6", "7", "8", "9">>

\* Number to decimal string, as a template literal renders it.
RECURSIVE ToStr(_)
ToStr(n) ==
  IF n < 10 THEN <<Digit[n + 1]>> ELSE ToStr(n \div 10) \o <<Digit[(n % 10) + 1]>>

W == "w"

\* "# Broken links report\n\nGenerated: <time>\nTotal broken links: N\n
\*  Total links checked: M\n\n## Broken links:\n\n", word runs as W.
ReportHeader(nBroken, nChecked) ==
  <<HASH, SP, W, SP, W, SP, W, NL, NL, W, ":", SP, W, NL, W, SP, W, SP, W, ":", SP>>
  \o ToStr(nBroken) \o <<NL, W, SP, W, SP, W, ":", SP>> \o ToStr(nChecked)
  \o <<NL, NL, HASH, HASH, SP, W, SP, W, ":", NL, NL>>

\* filesPaths.map(p => `[[${p}]]`).join(', ')
RECURSIVE JoinPaths(_)
JoinPaths(paths) ==
  IF paths = <<>> THEN <<>>
  ELSE IF Len(paths) = 1 THEN Bracketed(paths[1])
  ELSE Bracketed(paths[1]) \o <<",", SP>> \o JoinPaths(Tail(paths))

\* `- ${link} in ${...}\n`
ReportLine(entry) ==
  <<DASH, SP>> \o entry.link \o <<SP, "i", "n", SP>> \o JoinPaths(entry.paths) \o <<NL>>

RECURSIVE ReportLines(_)
ReportLines(map) ==
  IF map = <<>> THEN <<>> ELSE ReportLine(Head(map)) \o ReportLines(Tail(map))

\* The report text for brokenLinksMap, a Map kept as its entries in insertion order.
ReportContent(map, nChecked) == ReportHeader(Len(map), nChecked) \o ReportLines(map)

\* brokenLinksMap with one more reference: get-or-create the entry, then push.
MapPush(map, link, path) ==
  IF \E n \in 1..Len(map) : map[n].link = link
  THEN [n \in 1..Len(map) |->
          IF map[n].link = link
          THEN [link |-> link, paths |-> Append(map[n].paths, path)]
          ELSE map[n]]
  ELSE Append(map, [link |-> link, paths |-> <<path>>])

MapKeys(map) == {map[n].link : n \in 1..Len(map)}

(***************************************************************************)
(* The vault: documents (TFile), the host's link index, the settings       *)
(***************************************************************************)
VARIABLES
  vault,     \* each existing document |-> its content
  indexed,   \* the documents the host's metadataCache resolves links to
  settings,  \* this.settings
  scan,      \* the scanAndGenerateBrokenLinks call in flight (or the last one)
  clean,     \* the cleanAllFiles / cleanCurrentFile call in flight (or the last one)
  orphan,    \* the findOrphanFiles call in flight (or the last one)
  edits,     \* number of user edits so far
  cmds,      \* number of commands invoked so far
  hpc, htext, hkeys, hdel, hout   \* a direct call of a pure function

vars ==
  <<vault, indexed, settings, scan, clean, orphan, edits, cmds,
    hpc, htext, hkeys, hdel, hout>>
sysvars == <<vault, indexed, settings, scan, clean, orphan, edits, cmds>>
hvars == <<hpc, htext, hkeys, hdel, hout>>

\* The documents the vault can hold: a note in the root, a note in a folder,
\* and the document the settings name as the broken-links file.
FileIds == {"A", "B", "R"}

\* TFile.basename, TFile.name, TFile.path
Basename(f) == CASE f = "A" -> <<"a">> [] f = "B" -> <<"b">> [] OTHER -> <<"r">>
Name(f) == Basename(f) \o <<MD>>
Path(f) == IF f = "B" THEN <<"d", "/">> \o Name(f) ELSE Name(f)

\* DEFAULT_SETTINGS
DEFAULT_SETTINGS == [brokenLinksFile |-> Path("R"), deleteText |-> FALSE]

\* vault.getMarkdownFiles(): the existing documents, in the host's order.
FileOrder == <<"A", "B", "R">>
InVault(f) == f \in DOMAIN vault
getMarkdownFiles == SelectSeq(FileOrder, InVault)

\* vault.getAbstractFileByPath(path): the documents at that path (none or one).
getAbstractFileByPath(path) == {f \in DOMAIN vault : Path(f) = path}

\* metadataCache.getFirstLinkpathDest(linkpath, sourcePath): the indexed
\* documents the host resolves the link path to (none or one); the host matches
\* a basename, a file name or a path, with or without the extension.
getFirstLinkpathDest(linkpath, sourcePath) ==
  {f \in indexed \cap DOMAIN vault :
     linkpath \in {Basename(f), Name(f), Path(f),
                   SubSeq(Path(f), 1, Len(Path(f)) - 1)}}

(***************************************************************************)
(* scanAndGenerateBrokenLinks: the work done on one document               *)
(***************************************************************************)

\* An existingFiles without the paths: basenames and file names alone.
ExistingFilesNamesOnly(files) ==
  UNION {{Basename(files[n]), Name(files[n])} : n \in 1..Len(files)}

\* existingFiles (lines 291-296) for the listed files.
ExistingFiles(files) ==
  UNION {{Basename(files[n]), Path(files[n]), Name(files[n])} : n \in 1..Len(files)}

\* link.slice(2, -2).split('|')[0].trim()
ScanLinkText(link) == Trim(LinkTarget(link))

\* The test of line 317.
IsBrokenLink(linkText, file, files) ==
  /\ getFirstLinkpathDest(linkText, Path(file)) = {}
  /\ linkText \notin ExistingFiles(files)
  /\ (linkText \o <<MD>>) \notin ExistingFiles(files)

\* The inner loop (lines 307-324) over the matches of one document, from the
\* n-th match on: the map after it.
RECURSIVE ScanLinks(_, _, _, _, _, _)
ScanLinks(content, spans, n, file, files, map) ==
  IF n > Len(spans) THEN map
  ELSE LET linkText == ScanLinkText(Slice(content, spans[n].from, spans[n].to))
       IN ScanLinks(content, spans, n + 1, file, files,
                    IF IsBrokenLink(linkText, file, files)
                    THEN MapPush(map, Bracketed(linkText), Path(file))
                    ELSE map)

(***************************************************************************)
(* Bounds and the texts the user writes                                    *)
(***************************************************************************)
MaxEdits == 1
MaxCmds == 2

\* "[[b]] [[c|w]]": a link to document B and an aliased link to no document.
TxtLinks == <<LB, LB, "b", RB, RB, SP, LB, LB, "c", BAR, W, RB, RB>>
\* "[[ c]] [[b.md]]": a padded link to no document, a link by file name.
TxtPadded == <<LB, LB, SP, "c", RB, RB, SP, LB, LB, "b", MD, RB, RB>>
\* "[[d/b]] [[r]]": a link by path, a link to the broken-links file itself.
TxtPaths == <<LB, LB, "d", "/", "b", RB, RB, SP, LB, LB, "r", RB, RB>>
\* "w": no link.
TxtNone == <<W>>
DocTexts == {TxtLinks, TxtPadded, TxtPaths, TxtNone}

\* A hand-written list: "- [[c]]\n- [[b]]".
RegList == <<DASH, SP, LB, LB, "c", RB, RB, NL, DASH, SP, LB, LB, "b", RB, RB>>
RegTexts == {RegList}

UserTexts(f) == IF f = "R" THEN RegTexts ELSE DocTexts

(***************************************************************************)
(* State of the two passes                                                 *)
(***************************************************************************)
NoRun == [valid |-> FALSE, total |-> 0, keys |-> {}]

\* quiet: nothing but this run has changed the vault or the index since the run
\* started.  prev: the result of the run before this one, when that run was
\* quiet and this run follows it with nothing else happening in between
\* (both are bookkeeping for the properties).
IdleScan ==
  [pc |-> "idle", files |-> <<>>, i |-> 0, map |-> <<>>, total |-> 0,
   content |-> <<>>, mode |-> "none", target |-> "R", prev |-> NoRun,
   quiet |-> TRUE]

\* notice: the last Notice the call has shown.  quiet: nothing but this pass has
\* changed the vault, the index or the settings since the pass started; reads:
\* the documents the call has asked the vault to read (both are bookkeeping for
\* the properties); mode: settings.deleteText when the call started (likewise).
IdleClean ==
  [pc |-> "idle", kind |-> "all", keys |-> {}, files |-> <<>>, i |-> 0,
   count |-> 0, content |-> <<>>, cleaned |-> <<>>, errors |-> 0,
   notice |-> "none", quiet |-> TRUE, reads |-> {}, mode |-> FALSE]

\* Something else changes the vault, the index or the settings: the record of a
\* finished pass is dropped, a pass in flight is no longer undisturbed.
DisturbedScan(s) ==
  IF s.pc \in {"idle", "done", "failed"} THEN IdleScan ELSE [s EXCEPT !.prev = NoRun, !.quiet = FALSE]
DisturbedClean(c) ==
  IF c.pc \in {"idle", "done", "failed"} THEN IdleClean ELSE [c EXCEPT !.quiet = FALSE]

\* What a pass leaves behind when it returns or rejects.
ScanDone(s) ==
  [IdleScan EXCEPT !.pc = "done", !.map = s.map, !.total = s.total,
                   !.prev = s.prev, !.quiet = s.quiet]
ScanFailed == [IdleScan EXCEPT !.pc = "failed"]
CleanDone(c) ==
  [c EXCEPT !.pc = "done", !.content = <<>>, !.cleaned = <<>>]
CleanFailed == [IdleClean EXCEPT !.pc = "failed"]

\* findOrphanFiles: linked holds the documents allLinks has a key for, result
\* the orphanFiles of a call that has ended; quiet as above.
IdleOrphan ==
  [pc |-> "idle", files |-> <<>>, i |-> 0, linked |-> {}, result |-> <<>>,
   quiet |-> TRUE]
DisturbedOrphan(o) ==
  IF o.pc \in {"idle", "done", "failed"} THEN IdleOrphan ELSE [o EXCEPT !.quiet = FALSE]
OrphanFailed == [IdleOrphan EXCEPT !.pc = "failed"]

HOff == hpc = "off" /\ htext = <<>> /\ hkeys = {} /\ hdel = FALSE /\ hout = <<>>

Init ==
  /\ \E a \in DocTexts, bs \in SUBSET {"B"}, rs \in SUBSET {"R"} :
       vault = [f \in {"A"} \cup bs \cup rs |->
                  IF f = "A" THEN a ELSE IF f = "B" THEN TxtNone ELSE RegList]
  /\ indexed = DOMAIN vault
  /\ settings \in {[DEFAULT_SETTINGS EXCEPT !.deleteText = d] : d \in BOOLEAN}
  /\ scan = IdleScan
  /\ clean = IdleClean
  /\ orphan = IdleOrphan
  /\ edits = 0
  /\ cmds = 0
  /\ HOff

(***************************************************************************)
(* The user and the host                                                   *)
(***************************************************************************)

\* The user creates a document or replaces the content of one.
UserWrite(f, text) ==
  /\ edits < MaxEdits
  /\ f \in DOMAIN vault => vault[f] # text
  /\ vault' = [g \in DOMAIN vault \cup {f} |-> IF g = f THEN text ELSE vault[g]]
  /\ edits' = edits + 1
  /\ scan' = DisturbedScan(scan)
  /\ clean' = DisturbedClean(clean)
  /\ orphan' = DisturbedOrphan(orphan)
  /\ UNCHANGED <<indexed, settings, cmds, hvars>>

\* The user deletes a document.
UserDelete(f) ==
  /\ edits < MaxEdits
  /\ f \in DOMAIN vault
  /\ vault' = [g \in DOMAIN vault \ {f} |-> vault[g]]
  /\ indexed' = indexed \ {f}
  /\ edits' = edits + 1
  /\ scan' = DisturbedScan(scan)
  /\ clean' = DisturbedClean(clean)
  /\ orphan' = DisturbedOrphan(orphan)
  /\ UNCHANGED <<settings, cmds, hvars>>

\* The host's metadataCache catches up with a new document.
IndexFile(f) ==
  /\ f \in DOMAIN vault \ indexed
  /\ indexed' = indexed \cup {f}
  /\ scan' = DisturbedScan(scan)
  /\ clean' = DisturbedClean(clean)
  /\ orphan' = DisturbedOrphan(orphan)
  /\ UNCHANGED <<vault, settings, edits, cmds, hvars>>

\* The user flips "Delete text completely" in the settings tab (lines 541-546).
\* The tab stays usable while a pass awaits its I/O.
ToggleDeleteText ==
  /\ settings' = [settings EXCEPT !.deleteText = ~settings.deleteText]
  /\ clean' = DisturbedClean(clean)
  /\ UNCHANGED <<vault, indexed, scan, orphan, edits, cmds, hvars>>

(***************************************************************************)
(* scanAndGenerateBrokenLinks (lines 285-354)                              *)
(***************************************************************************)

\* Lines 330-353, reached without a further await after the last read: the
\* notice "No broken links found", or the report and the choice modify/create.
ScanFinish(s) ==
  IF s.map = <<>> THEN ScanDone(s)
  ELSE LET existingFile == getAbstractFileByPath(settings.brokenLinksFile)
       IN [s EXCEPT !.pc = "writing",
                    !.content = ReportContent(s.map, s.total),
                    !.mode = IF existingFile # {} THEN "modify" ELSE "create",
                    !.target = IF existingFile # {} THEN CHOOSE f \in existingFile : TRUE
                               ELSE CHOOSE f \in FileIds : Path(f) = settings.brokenLinksFile]

\* The command is invoked: lines 286-299, up to the first await.
ScanStart ==
  /\ scan.pc \in {"idle", "done", "failed"}
  /\ cmds < MaxCmds
  /\ cmds' = cmds + 1
  /\ LET s == [IdleScan EXCEPT
                 !.files = getMarkdownFiles, !.i = 1,
                 !.prev = IF scan.pc = "done" /\ scan.quiet
                          THEN [valid |-> TRUE, total |-> scan.total,
                                keys |-> MapKeys(scan.map)]
                          ELSE NoRun]
     IN scan' = IF s.files = <<>> THEN ScanFinish(s) ELSE [s EXCEPT !.pc = "reading"]
  /\ UNCHANGED <<vault, indexed, settings, clean, orphan, edits, hvars>>

\* One document's content after its read: lines 304-325.
ScanDocument(s, content) ==
  LET spans == MatchSpans(content, 1)
  IN [s EXCEPT !.total = s.total + Len(spans),
               !.map = ScanLinks(content, spans, 1, s.files[s.i], s.files, s.map),
               !.i = s.i + 1]

\* await vault.read(file) returns (line 303); a failed read rejects the call.
ScanRead ==
  /\ scan.pc = "reading"
  /\ \E ok \in BOOLEAN :
       LET file == scan.files[scan.i]
       IN IF ok /\ file \in DOMAIN vault
          THEN LET s == ScanDocument(scan, vault[file])
               IN scan' = IF s.i > Len(s.files) THEN ScanFinish(s) ELSE s
          ELSE scan' = ScanFailed
  /\ UNCHANGED <<vault, indexed, settings, clean, orphan, edits, cmds, hvars>>

\* await vault.modify / vault.create returns (lines 348, 351).
ScanWrite ==
  /\ scan.pc = "writing"
  /\ \E ok \in BOOLEAN :
       LET there == scan.target \in DOMAIN vault
       IN IF ok /\ (there <=> scan.mode = "modify")
          THEN /\ vault' = [g \in DOMAIN vault \cup {scan.target} |->
                              IF g = scan.target THEN scan.content ELSE vault[g]]
               /\ scan' = ScanDone(scan)
               /\ clean' = DisturbedClean(clean)
               /\ orphan' = DisturbedOrphan(orphan)
          ELSE /\ scan' = ScanFailed
               /\ UNCHANGED <<vault, clean, orphan>>
  /\ UNCHANGED <<indexed, settings, edits, cmds, hvars>>

(***************************************************************************)
(* loadBrokenLinks, cleanFile, cleanCurrentFile, cleanAllFiles             *)
(***************************************************************************)

\* A caller that goes on whatever the loader returned.
NeverShortCircuits(brokenLinks) == FALSE

\* brokenLinks.size === 0 (lines 185, 202)
NothingLoaded(brokenLinks) == brokenLinks = {}

\* loadBrokenLinks up to its await (lines 99-107): without a registry document
\* it returns the empty set, and the caller returns after its notice.
CleanStart(kind, file) ==
  /\ clean.pc \in {"idle", "done", "failed"}
  /\ cmds < MaxCmds
  /\ cmds' = cmds + 1
  /\ kind = "current" => file \in DOMAIN vault
  /\ LET c == [IdleClean EXCEPT !.kind = kind, !.mode = settings.deleteText,
                 !.files = IF kind = "current" THEN <<file>> ELSE <<>>]
         reg == getAbstractFileByPath(settings.brokenLinksFile)
         files == IF kind = "all" THEN getMarkdownFiles ELSE c.files
     IN clean' = IF reg # {} THEN [c EXCEPT !.pc = "loading", !.reads = reg]
                 ELSE IF NothingLoaded({})
                 THEN CleanDone([c EXCEPT !.notice = "nothing loaded"])
                 ELSE IF files = <<>>
                 THEN CleanDone([c EXCEPT !.files = files, !.notice = "summary"])
                 ELSE [c EXCEPT !.pc = "reading", !.i = 1, !.files = files,
                                !.notice = "loaded"]
  /\ UNCHANGED <<vault, indexed, settings, scan, orphan, edits, hvars>>

\* cleanAllFiles is invoked (confirm button of the modal).
CleanAllStart == CleanStart("all", "A")

\* cleanCurrentFile is invoked with the document open in the editor.
CleanCurrentStart == \E f \in FileIds : CleanStart("current", f)

\* The loop of cleanAllFiles moves to the next document, or the pass ends.
NextDocument(c) ==
  IF c.i + 1 > Len(c.files)
  THEN CleanDone([c EXCEPT !.i = c.i + 1, !.notice = "summary"])
  ELSE [c EXCEPT !.i = c.i + 1, !.pc = "reading"]

\* A cleanFile without the catch block: the failure rejects the whole pass.
CleanFileRethrown(c) == CleanFailed

\* cleanFile's catch block (lines 170-173): log, return false.
CleanFileCaught(c) == NextDocument([c EXCEPT !.errors = c.errors + 1])

\* await vault.read(file) of loadBrokenLinks returns (line 107); the callers go
\* on to lines 185-190 / 202-210.  A failed read rejects the whole call.
CleanLoad ==
  /\ clean.pc = "loading"
  /\ \E ok \in BOOLEAN :
       LET reg == getAbstractFileByPath(settings.brokenLinksFile)
       IN IF ok /\ reg # {}
          THEN LET keys == ParseBrokenLinks(vault[CHOOSE f \in reg : TRUE])
                   files == IF clean.kind = "all" THEN getMarkdownFiles ELSE clean.files
               IN clean' = IF NothingLoaded(keys)
                           THEN CleanDone([clean EXCEPT !.notice = "nothing loaded"])
                           ELSE IF files = <<>>
                           THEN CleanDone([clean EXCEPT !.keys = keys, !.files = files,
                                                        !.notice = "summary"])
                           ELSE [clean EXCEPT !.pc = "reading", !.keys = keys,
                                              !.files = files, !.i = 1,
                                              !.notice = "loaded"]
          ELSE clean' = CleanFailed
  /\ UNCHANGED <<vault, indexed, settings, scan, orphan, edits, cmds, hvars>>

\* A cleanFile that writes back whatever it read.
AlwaysChanged(content, cleanedContent) == TRUE

\* content !== cleanedContent (line 165)
Changed(content, cleanedContent) == content # cleanedContent

\* cleanFile: await vault.read(file) returns, lines 162-169.
CleanRead ==
  /\ clean.pc = "reading"
  /\ \E ok \in BOOLEAN :
       LET file == clean.files[clean.i]
           c == [clean EXCEPT !.reads = clean.reads \cup {file}]
       IN IF ok /\ file \in DOMAIN vault
          THEN LET content == vault[file]
                   cleanedContent ==
                     cleanBrokenWikilinks(content, clean.keys, settings.deleteText)
               IN clean' = IF Changed(content, cleanedContent)
                           THEN [c EXCEPT !.pc = "writing", !.content = content,
                                          !.cleaned = cleanedContent]
                           ELSE NextDocument(c)
          ELSE clean' = CleanFileCaught(c)
  /\ UNCHANGED <<vault, indexed, settings, scan, orphan, edits, cmds, hvars>>

\* cleanFile: await vault.modify(file, cleanedContent) returns, lines 166-167.
CleanWrite ==
  /\ clean.pc = "writing"
  /\ \E ok \in BOOLEAN :
       LET file == clean.files[clean.i]
       IN IF ok /\ file \in DOMAIN vault
          THEN /\ vault' = [vault EXCEPT ![file] = clean.cleaned]
               /\ clean' = NextDocument([clean EXCEPT !.count = clean.count + 1])
               /\ scan' = DisturbedScan(scan)
               /\ orphan' = DisturbedOrphan(orphan)
          ELSE /\ clean' = CleanFileCaught(clean)
               /\ UNCHANGED <<vault, scan, orphan>>
  /\ UNCHANGED <<indexed, settings, edits, cmds, hvars>>

CleanStep == CleanLoad \/ CleanRead \/ CleanWrite

(***************************************************************************)
(* findOrphanFiles (lines 226-263)                                         *)
(***************************************************************************)

\* The documents the links of one document resolve to (lines 233-246); the
\* link text is not trimmed here.
LinkedFrom(content, file) ==
  LET spans == MatchSpans(content, 1)
  IN UNION {getFirstLinkpathDest(
              LinkTarget(Slice(content, spans[n].from, spans[n].to)), Path(file)) :
            n \in 1..Len(spans)}

\* An analysis that finds no orphan at all.
NoOrphanFiles(files, linked) == <<>>

\* orphanFiles (lines 251-256): the listed files allLinks has no key for.
OrphanFiles(files, linked) ==
  LET NotLinked(f) == f \notin linked IN SelectSeq(files, NotLinked)

\* Lines 250-262: the notice or the modal.
OrphanFinish(o) ==
  [IdleOrphan EXCEPT !.pc = "done", !.files = o.files, !.linked = o.linked,
                     !.result = OrphanFiles(o.files, o.linked), !.quiet = o.quiet]

\* The command is invoked: line 227, up to the first await.
OrphanStart ==
  /\ orphan.pc \in {"idle", "done", "failed"}
  /\ cmds < MaxCmds
  /\ cmds' = cmds + 1
  /\ LET o == [IdleOrphan EXCEPT !.files = getMarkdownFiles, !.i = 1]
     IN orphan' = IF o.files = <<>> THEN OrphanFinish(o) ELSE [o EXCEPT !.pc = "reading"]
  /\ UNCHANGED <<vault, indexed, settings, scan, clean, edits, hvars>>

\* await vault.read(file) returns (line 232); a failed read rejects the call.
OrphanRead ==
  /\ orphan.pc = "reading"
  /\ \E ok \in BOOLEAN :
       LET file == orphan.files[orphan.i]
       IN IF ok /\ file \in DOMAIN vault
          THEN LET o == [orphan EXCEPT
                           !.linked = orphan.linked \cup LinkedFrom(vault[file], file),
                           !.i = orphan.i + 1]
               IN orphan' = IF o.i > Len(o.files) THEN OrphanFinish(o) ELSE o
          ELSE orphan' = OrphanFailed
  /\ UNCHANGED <<vault, indexed, settings, scan, clean, edits, cmds, hvars>>

Next ==
  \/ \E f \in FileIds : \E text \in UserTexts(f) : UserWrite(f, text)
  \/ \E f \in FileIds : UserDelete(f)
  \/ \E f \in FileIds : IndexFile(f)
  \/ ToggleDeleteText
  \/ ScanStart
  \/ ScanRead
  \/ ScanWrite
  \/ CleanAllStart
  \/ CleanCurrentStart
  \/ CleanLoad
  \/ CleanRead
  \/ CleanWrite
  \/ OrphanStart
  \/ OrphanRead

Spec == Init /\ [][Next]_vars

\* The user and the host.
Env ==
  \/ \E f \in FileIds : \E text \in UserTexts(f) : UserWrite(f, text)
  \/ \E f \in FileIds : UserDelete(f)
  \/ \E f \in FileIds : IndexFile(f)
  \/ ToggleDeleteText

\* The vault with the scan command alone.
NextScan == Env \/ ScanStart \/ ScanRead \/ ScanWrite
SpecScan == Init /\ [][NextScan]_vars

\* The vault with the clean commands alone.  Every read and write the host has
\* started returns or fails, hence the fairness on the steps of a pass.
NextClean == Env \/ CleanAllStart \/ CleanCurrentStart \/ CleanLoad \/ CleanRead \/ CleanWrite
SpecCleanPass == Init /\ [][NextClean]_vars /\ WF_vars(CleanStep)

\* The scan and the clean commands with no user at the vault and the host's
\* index up to date.
NextCommands ==
  \/ ScanStart \/ ScanRead \/ ScanWrite
  \/ CleanAllStart \/ CleanCurrentStart \/ CleanLoad \/ CleanRead \/ CleanWrite
SpecCommands == Init /\ [][NextCommands]_vars

\* The vault with the orphan analysis alone.
NextOrphan == Env \/ OrphanStart \/ OrphanRead
SpecOrphan == Init /\ [][NextOrphan]_vars

(***************************************************************************)
(* Direct calls of cleanBrokenWikilinks and of the registry line parser,   *)
(* on every text made of a few pieces                                      *)
(***************************************************************************)
MaxPieces == 5
MaxLoadPieces == 4

TextsOf(pieces, n) ==
  {Flatten(p) : p \in UNION {[1..k -> pieces] : k \in 0..n}}

KeyA == Bracketed(<<"a">>)
KeyAlias == Bracketed(<<"a", BAR, "a">>)

\* Brackets alone and in pairs, a bar, a letter, and a whole link.
CleanPieces == {<<LB, LB>>, <<RB, RB>>, <<RB>>, <<BAR>>, <<"a">>, KeyA}
\* The keys a hand-written list can hold: "- [[a]]", "- [[a|a]]".
CleanKeys == {KeyA, KeyAlias}

\* List markers, links, the " in " of a report line, line ends, a heading
\* marker, a word, a blank, an opening pair of brackets.
LoadPieces ==
  {<<DASH, SP>>, KeyA, Bracketed(<<"b">>), <<SP, "i", "n", SP>>, <<NL>>,
   <<HASH>>, <<W>>, <<SP>>, <<LB, LB>>}

SysIdle ==
  /\ vault = <<>>
  /\ indexed = {}
  /\ settings = DEFAULT_SETTINGS
  /\ scan = IdleScan
  /\ clean = IdleClean
  /\ orphan = IdleOrphan
  /\ edits = 0
  /\ cmds = 0

HInitClean ==
  /\ SysIdle
  /\ hpc = "in"
  /\ htext \in TextsOf(CleanPieces, MaxPieces)
  /\ hkeys \in SUBSET CleanKeys
  /\ hdel \in BOOLEAN
  /\ hout = <<>>

\* cleanBrokenWikilinks(htext, hkeys) under settings.deleteText = hdel.
HClean ==
  /\ hpc = "in"
  /\ hout' = cleanBrokenWikilinks(htext, hkeys, hdel)
  /\ hpc' = "cleaned"
  /\ UNCHANGED <<sysvars, htext, hkeys, hdel>>

\* The same call again, on the text the first call returned.
HCleanAgain ==
  /\ hpc = "cleaned"
  /\ htext' = hout
  /\ hout' = cleanBrokenWikilinks(hout, hkeys, hdel)
  /\ hpc' = "recleaned"
  /\ UNCHANGED <<sysvars, hkeys, hdel>>

HNextClean == HClean \/ HCleanAgain
SpecClean == HInitClean /\ [][HNextClean]_vars

HInitLoad ==
  /\ SysIdle
  /\ hpc = "in"
  /\ htext \in TextsOf(LoadPieces, MaxLoadPieces)
  /\ hkeys = {}
  /\ hdel = FALSE
  /\ hout = <<>>

\* loadBrokenLinks on a registry document whose content is htext.
HLoad ==
  /\ hpc = "in"
  /\ hkeys' = ParseBrokenLinks(htext)
  /\ hpc' = "loaded"
  /\ UNCHANGED <<sysvars, htext, hdel, hout>>

SpecLoad == HInitLoad /\ [][HLoad]_vars

\* The scan command on a vault of one document, a.md, made of a few pieces: the
\* same broken target plain, aliased and padded, a link to a.md, a blank.
MaxScanPieces == 3
ScanPieces ==
  {Bracketed(<<"c">>), Bracketed(<<"c", BAR, W>>), Bracketed(<<SP, "c">>),
   Bracketed(<<"a">>), <<SP>>}
InitScanTexts ==
  /\ vault \in {[f \in {"A"} |-> text] : text \in TextsOf(ScanPieces, MaxScanPieces)}
  /\ indexed = {"A"}
  /\ settings = DEFAULT_SETTINGS
  /\ scan = IdleScan
  /\ clean = IdleClean
  /\ orphan = IdleOrphan
  /\ edits = 0
  /\ cmds = 0
  /\ HOff
NextScanTexts == ScanStart \/ ScanRead \/ ScanWrite
SpecScanTexts == InitScanTexts /\ [][NextScanTexts]_vars

(***************************************************************************)
(* Properties of cleanBrokenWikilinks (specification SpecClean)            *)
(***************************************************************************)

\* C1: cleanBrokenWikilinks is idempotent: cleaning its own output again, with
\* the same key set and the same deleteText, returns that output unchanged.
C1_Idempotent == hpc = "recleaned" => hout = htext

\* The Broken Link Key of the occurrence s[span.from..span.to]: `[[target]]`,
\* the target being the text before the first bar.
OccurrenceKey(s, span) == Bracketed(LinkTarget(Slice(s, span.from, span.to)))

\* The text between the occurrences whose key is in K, piece by piece: what
\* the rewriter has to leave alone.
RECURSIVE KeptPieces(_, _, _, _, _)
KeptPieces(s, spans, n, from, K) ==
  IF n > Len(spans) THEN <<Slice(s, from, Len(s))>>
  ELSE IF OccurrenceKey(s, spans[n]) \in K
       THEN <<Slice(s, from, spans[n].from - 1)>>
            \o KeptPieces(s, spans, n + 1, spans[n].to + 1, K)
       ELSE KeptPieces(s, spans, n + 1, from, K)

\* Whether the pieces occur in out from index i on, in order, without overlap.
RECURSIVE OccurInOrder(_, _, _)
OccurInOrder(out, i, pieces) ==
  IF pieces = <<>> THEN TRUE
  ELSE LET p == Head(pieces)
           at == {j \in i..(Len(out) - Len(p) + 1) : Slice(out, j, j + Len(p) - 1) = p}
       IN at # {} /\ OccurInOrder(out, Min(at) + Len(p), Tail(pieces))

\* out is the kept pieces with some text (possibly none) between them.
KeepsPieces(out, pieces) ==
  IF Len(pieces) = 1 THEN out = pieces[1]
  ELSE LET first == pieces[1]
           last == pieces[Len(pieces)]
       IN /\ Len(out) >= Len(first) + Len(last)
          /\ Slice(out, 1, Len(first)) = first
          /\ Slice(out, Len(out) - Len(last) + 1, Len(out)) = last
          /\ OccurInOrder(Slice(out, 1, Len(out) - Len(last)), Len(first) + 1,
                          SubSeq(pieces, 2, Len(pieces) - 1))

\* C2: every link occurrence whose Broken Link Key is not in the key set comes
\* out unchanged, with the text around it; when no occurrence's key is in the
\* set, the output is the input.
C2_ValidLinksUntouched ==
  hpc = "cleaned" =>
    KeepsPieces(hout, KeptPieces(htext, MatchSpans(htext, 1), 1, 1, hkeys))

\* What C4 describes, in one pass over the link occurrences of the input: an
\* alias form whose `[[target]]` is a key becomes its display text, any other
\* occurrence that is a key becomes its inner text (nothing at all when
\* deleteText is set), every other character stays.
RECURSIVE ExpectedClean(_, _, _, _)
ExpectedClean(s, i, K, deleteText) ==
  IF i > Len(s) THEN <<>>
  ELSE LET e == PlainMatchEnd(s, i)
       IN IF e = 0 THEN <<s[i]>> \o ExpectedClean(s, i + 1, K, deleteText)
          ELSE LET inner == Slice(s, i + 2, e - 2)
                   bar == IndexFrom(inner, 1, {BAR})
                   aliasForm == bar > 1 /\ bar < Len(inner)
                   new == IF aliasForm /\ Bracketed(Slice(inner, 1, bar - 1)) \in K
                          THEN Slice(inner, bar + 1, Len(inner))
                          ELSE IF Slice(s, i, e) \in K THEN inner
                          ELSE Slice(s, i, e)
               IN (IF deleteText /\ new # Slice(s, i, e) THEN <<>> ELSE new)
                  \o ExpectedClean(s, e + 1, K, deleteText)

\* C4: a broken alias form is replaced by exactly its display text, a broken
\* plain form by exactly its target (by nothing when deleteText is set), and
\* every character outside the replaced spans is kept in place and in order.
C4_ExactReplacement ==
  hpc = "cleaned" => hout = ExpectedClean(htext, 1, hkeys, hdel)

(***************************************************************************)
(* Properties of the clean passes                                          *)
(***************************************************************************)

\* The keys of K whose target the host resolves from this document right now.
WorkingKeys(K, file) ==
  {k \in K : getFirstLinkpathDest(ScanLinkText(k), Path(file)) # {}}

\* C3: cleanAllFiles and cleanCurrentFile never rewrite a link occurrence whose
\* target resolves to an existing document at the moment the clean runs: what
\* cleanFile decides to write is the document cleaned of the keys that do not
\* resolve, and of those alone.
C3_WorkingLinksUntouched ==
  [][(clean.pc = "reading" /\ clean'.pc = "writing") =>
       LET file == clean.files[clean.i]
       IN clean'.cleaned =
            cleanBrokenWikilinks(clean'.content,
                                 clean.keys \ WorkingKeys(clean.keys, file),
                                 settings.deleteText)]_vars

\* The keys, formed as the scanner forms them, of the link occurrences of a text.
OccurrenceKeys(content) ==
  LET spans == MatchSpans(content, 1)
  IN {Bracketed(ScanLinkText(Slice(content, spans[n].from, spans[n].to))) :
        n \in 1..Len(spans)}

\* C5: once cleanAllFiles has run to its end, undisturbed and without an I/O
\* failure, no document holds a link occurrence whose Broken Link Key (the text
\* before the first bar, trimmed) is a key of the registry it loaded.
C5_NoOccurrenceLeft ==
  (clean.pc = "done" /\ clean.kind = "all" /\ clean.quiet /\ clean.errors = 0) =>
    \A f \in DOMAIN vault : OccurrenceKeys(vault[f]) \cap clean.keys = {}

(***************************************************************************)
(* Properties of the scanner and of the registry loader                    *)
(***************************************************************************)

\* brokenLinksMap lists path among the references of key.
Reported(map, key, path) ==
  \E n \in 1..Len(map) :
    map[n].link = key /\ \E k \in 1..Len(map[n].paths) : map[n].paths[k] = path

\* The step in which the scanner takes in one document (a read that succeeds).
ScansDocument ==
  /\ scan.pc = "reading"
  /\ \/ scan'.pc \in {"writing", "done"}
     \/ scan'.pc = "reading" /\ scan'.i = scan.i + 1

\* In such a step, an occurrence of the document is reported under its key
\* exactly when Broken(target, files listed by the scan) holds.
ReportsExactly(Broken(_, _)) ==
  ScansDocument =>
    LET file == scan.files[scan.i]
        content == vault[file]
        spans == MatchSpans(content, 1)
    IN \A n \in 1..Len(spans) :
         LET target == ScanLinkText(Slice(content, spans[n].from, spans[n].to))
         IN Reported(scan'.map, Bracketed(target), Path(file))
            <=> (getFirstLinkpathDest(target, Path(file)) = {} /\ Broken(target, scan.files))

Basenames(files) == {Basename(files[n]) : n \in 1..Len(files)}
Names(files) == {Name(files[n]) : n \in 1..Len(files)}
Paths(files) == {Path(files[n]) : n \in 1..Len(files)}

\* The two fallback checks as the claim words them.
NoBasenameNoName(target, files) ==
  target \notin Basenames(files) /\ (target \o <<MD>>) \notin Names(files)

\* The two fallback checks over basenames, file names and paths together.
NoBasenameNamePath(target, files) ==
  LET known == Basenames(files) \cup Names(files) \cup Paths(files)
  IN target \notin known /\ (target \o <<MD>>) \notin known

\* C6 (as stated): an occurrence is reported broken if and only if the resolver
\* returns no document, the target equals no document's basename, and target +
\* ".md" equals no document's file name.
C6_ReportedIffThreeChecks == [][ReportsExactly(NoBasenameNoName)]_vars

\* C6 (amended): an occurrence is reported broken if and only if the resolver
\* returns no document and neither the target nor target + ".md" equals the
\* basename, the file name or the path of a document listed when the scan began.
C6_ReportedIffNoKnownName == [][ReportsExactly(NoBasenameNamePath)]_vars

\* The scanner has taken in a.md = "[[ c]] [[b.md]]" while the host had not yet
\* indexed d/b.md: `[[b.md]]` does not resolve, is a file name, is not reported.
C6_Witness ==
  /\ scan.pc = "reading" /\ scan.i = 2 /\ scan.files = <<"A", "B">>
  /\ "B" \notin indexed
  /\ vault["A"] = TxtPadded
  /\ MapKeys(scan.map) = {Bracketed(<<"c">>)}

\* The first bracketed expression of a line, <<>> when it has none.
FirstLink(line) ==
  LET spans == MatchSpans(line, 1)
  IN IF spans = <<>> THEN <<>> ELSE Slice(line, spans[1].from, spans[1].to)

\* Optional whitespace and dashes, then at once a bracketed expression.
ListShaped(line) ==
  \E p \in 1..Len(line) :
    /\ \A j \in 1..(p - 1) : line[j] \in Whitespace \cup {DASH}
    /\ PlainMatchEnd(line, p) # 0

Blank(line) == \A j \in 1..Len(line) : line[j] \in Whitespace
Heading(line) ==
  \E p \in 1..Len(line) :
    line[p] = HASH /\ \A j \in 1..(p - 1) : line[j] \in Whitespace

\* C7: loadBrokenLinks returns exactly the first bracketed expressions of the
\* lines that are not blank, do not begin with a heading marker and are
\* list-shaped; no later expression of a line and no other line adds a key.
C7_FirstLinkOfListLines ==
  hpc = "loaded" =>
    LET lines == Split(htext, NL)
    IN hkeys = {FirstLink(lines[n]) :
                  n \in {m \in 1..Len(lines) :
                           ~Blank(lines[m]) /\ ~Heading(lines[m]) /\ ListShaped(lines[m])}}

\* The loader has read the report line "- [[a]] in [[b]]" and kept `[[a]]` alone.
C7_Witness ==
  /\ hpc = "loaded"
  /\ htext = <<DASH, SP>> \o KeyA \o <<SP, "i", "n", SP>> \o Bracketed(<<"b">>)
  /\ hkeys = {KeyA}

\* loadBrokenLinks() on the vault as it is (lines 98-136).
loadBrokenLinks ==
  LET reg == getAbstractFileByPath(settings.brokenLinksFile)
  IN IF reg = {} THEN {} ELSE ParseBrokenLinks(vault[CHOOSE f \in reg : TRUE])

\* C8: when scanAndGenerateBrokenLinks has completed, with nothing else
\* touching the vault meanwhile, loadBrokenLinks returns exactly the set of
\* broken keys the scan found, the empty set when it found none.
C8_ReportRoundTrips ==
  (scan.pc = "done" /\ scan.quiet) => loadBrokenLinks = MapKeys(scan.map)

\* C9: a scan that follows a completed scan, with no user edit and no other
\* command from the start of the first to the end of the second, reports the
\* same totalLinksChecked and the same set of broken keys as that scan.
C9_ScanTwiceSame ==
  (scan.pc = "done" /\ scan.prev.valid) =>
    scan.total = scan.prev.total /\ MapKeys(scan.map) = scan.prev.keys

\* A pass of cleanAllFiles is at work on its documents.
CleanAllAtWork == clean.kind = "all" /\ clean.pc \in {"reading", "writing"}

\* C10: in cleanAllFiles a failed read or write of one document is caught: the
\* document stays as it is and is not counted, the pass goes on to the next
\* document; the documents are taken one after the other, never one twice; and
\* the pass ends having gone through the whole list.
C10_FailureContained ==
  /\ [][(CleanAllAtWork /\ clean'.errors = clean.errors + 1) =>
          /\ vault' = vault
          /\ clean'.count = clean.count
          /\ clean'.i = clean.i + 1
          /\ clean'.pc = IF clean.i < Len(clean.files) THEN "reading" ELSE "done"]_vars
  /\ [][CleanAllAtWork =>
          /\ clean'.files = clean.files
          /\ clean'.i \in {clean.i, clean.i + 1}
          /\ clean'.pc \in {"reading", "writing", "done"}]_vars
  /\ CleanAllAtWork ~>
       (clean.kind = "all" /\ clean.pc = "done" /\ clean.i = Len(clean.files) + 1)

\* A pass over two or more documents has ended after a failure on one document
\* and a successful rewrite of another.
C10_Witness ==
  /\ clean.kind = "all" /\ clean.pc = "done"
  /\ Len(clean.files) >= 2 /\ clean.i = Len(clean.files) + 1
  /\ clean.errors > 0 /\ clean.count > 0

(***************************************************************************)
(* Properties of the clean commands and of the analyses                    *)
(***************************************************************************)

\* The broken-links file as the vault holds it.
RegistryDoc == getAbstractFileByPath(settings.brokenLinksFile)

\* A clean command is invoked while the broken-links file is missing.
StartsWithoutRegistry == cmds' = cmds + 1 /\ clean' # clean /\ RegistryDoc = {}

\* The read of loadBrokenLinks returns a content that parses to no key.
LoadsNoKey ==
  clean.pc = "loading" /\ clean'.pc \in {"reading", "done"} /\ loadBrokenLinks = {}

\* The call ends there: notice, no key, no cleanFile, vault untouched.
ShortCircuits ==
  /\ clean'.pc = "done" /\ clean'.notice = "nothing loaded"
  /\ clean'.keys = {} /\ clean'.i = 0 /\ clean'.count = 0
  /\ vault' = vault

\* C11 (as stated): when the broken-links file is missing or parses to zero
\* keys, loadBrokenLinks returns the empty set and the clean command returns
\* after a notice without reading or modifying any document of the vault.
C11_ShortCircuitReadsNothing ==
  [][((StartsWithoutRegistry \/ LoadsNoKey) => ShortCircuits /\ clean'.reads = {})]_vars

\* C11 (amended): when the broken-links file is missing or parses to zero keys,
\* loadBrokenLinks returns the empty set and the clean command returns after a
\* notice, having read no document but the broken-links file (which it reads
\* only when it exists) and having modified none.
C11_ShortCircuitReadsRegistryOnly ==
  [][/\ StartsWithoutRegistry => ShortCircuits /\ clean'.reads = {}
     /\ LoadsNoKey => ShortCircuits /\ clean'.reads = RegistryDoc]_vars

\* A clean command has returned after reading a broken-links file without keys.
C11_Witness ==
  /\ clean.pc = "done" /\ clean.notice = "nothing loaded"
  /\ clean.reads # {} /\ clean.keys = {}

\* The read of cleanFile returns the content of the document.
CleanFileReads ==
  /\ clean.pc = "reading" /\ clean'.errors = clean.errors
  /\ clean'.pc = "writing" \/ clean'.i = clean.i + 1

\* The vault.modify of cleanFile returns, the document written.
CleanFileWrites == clean'.count = clean.count + 1

\* C12: cleanFile calls vault.modify on a document if and only if the cleaned
\* text differs from the text it read, and writes the cleaned text; a document
\* whose cleaned text equals its content is not written by the pass.
C12_ModifyIffChanged ==
  [][/\ CleanFileReads =>
          LET content == vault[clean.files[clean.i]]
          IN /\ clean'.pc = "writing" <=>
                  cleanBrokenWikilinks(content, clean.keys, settings.deleteText) # content
             /\ vault' = vault
     /\ CleanFileWrites =>
          /\ clean.pc = "writing" /\ clean.cleaned # clean.content
          /\ vault' = [vault EXCEPT ![clean.files[clean.i]] = clean.cleaned]]_vars

\* A cleanAllFiles pass has ended without failure, one document written and
\* another read and left alone.
C12_Witness ==
  /\ clean.pc = "done" /\ clean.kind = "all" /\ clean.errors = 0
  /\ clean.count = 1 /\ Len(clean.files) >= 2 /\ clean.i = Len(clean.files) + 1

ScanInFlight == scan.pc \in {"reading", "writing"}
CleanInFlight == clean.pc \in {"loading", "reading", "writing"}

\* C13: at most one pass is in flight at any time: a scan and a clean pass are
\* never both between their start and their end.
C13_OnePassInFlight == ~(ScanInFlight /\ CleanInFlight)

\* C14: a failed document read or write never ends a command as an unhandled
\* error: neither the scan nor a clean command is ever rejected.
C14_NoCommandAborts == scan.pc # "failed" /\ clean.pc # "failed"

\* Some link occurrence of a document among sources resolves, through the host
\* resolver, to the document f.
HasIncoming(f, sources) ==
  \E g \in sources :
    LET spans == MatchSpans(vault[g], 1)
    IN \E n \in 1..Len(spans) :
         f \in getFirstLinkpathDest(
                 LinkTarget(Slice(vault[g], spans[n].from, spans[n].to)), Path(g))

\* The orphan analysis has run to its end with nothing else touching the vault.
OrphanReported == orphan.pc = "done" /\ orphan.quiet

ReportedOrphans == {orphan.result[n] : n \in 1..Len(orphan.result)}

C16_OrphanIffNoLinkFromOthers ==
  OrphanReported =>
    ReportedOrphans = {f \in DOMAIN vault : ~HasIncoming(f, DOMAIN vault \ {f})}

\* C17: cleanAllFiles never rewrites the broken-links file itself: no write of
\* a cleanAllFiles pass changes the content of that document, so loading it
\* again yields the same keys.
C17_RegistryNotRewritten ==
  [][(clean.kind = "all" /\ CleanFileWrites) =>
       \A f \in RegistryDoc : vault'[f] = vault[f]]_vars

\* C18: no write is lost when commands overlap: whenever cleanFile writes a
\* document, the content it replaces is the content it read.
C18_NoLostWrite ==
  [][CleanFileWrites => vault[clean.files[clean.i]] = clean.content]_vars

\* C19: in the scan's map each key's reference collection is a set: no
\* document path is listed twice under one broken key.
C19_PathsListedOnce ==
  \A n \in 1..Len(scan.map) :
    \A j, k \in 1..Len(scan.map[n].paths) :
      scan.map[n].paths[j] = scan.map[n].paths[k] => j = k

\* C20: every document rewritten by one cleanAllFiles pass is cleaned under the
\* deleteText mode in effect when the pass started and under the key set the
\* pass loaded, whatever the user changes in the settings or in the vault
\* while the pass awaits its I/O.
C20_ModeAndKeysOfTheStart ==
  [][(clean.kind = "all" /\ CleanFileReads /\ clean'.pc = "writing") =>
       /\ clean'.keys = clean.keys
       /\ clean'.cleaned =
            cleanBrokenWikilinks(clean'.content, clean.keys, clean.mode)]_vars

====
